---- MODULE Spec2Model ----
(***************************************************************************)
(* Operation lifecycle of the Ripple API service: build, broadcast, status *)
(* and delete handlers of TransactionsController over the operation store  *)
(* (OperationRepository) and its two index tables.                         *)
(*                                                                         *)
(* Every HTTP request runs in a request slot.  A handler is cut into one   *)
(* action per storage or ledger call that it awaits, so that handlers of   *)
(* concurrent requests interleave exactly where the code can yield.        *)
(*                                                                         *)
(* Conventions: an unset Date, number or string field of an entity is the  *)
(* JavaScript falsy value of its type (0, "" or the empty sequence); Dates *)
(* are readings of a logical clock that ticks when a request arrives.      *)
(* Strings that the                                                        *)
(* code takes apart (operation ids, ledger result codes, addresses) are    *)
(* modelled by their parts.  A decimal amount is a pair (mant, scale)      *)
(* standing for mant * 10^-scale.                                          *)
(*                                                                         *)
(* Three further parts of the service have a specification of their own,   *)
(* in which the transaction handlers are at rest: the ledger adapter       *)
(* RippleService (SpecAdapter), the address checks of common.ts with       *)
(* AddressesController.isValid (SpecChecks), and the migration from v1     *)
(* (SpecMigration).                                                        *)
(***************************************************************************)
EXTENDS Integers, Sequences, FiniteSets, TLC

(***************************************************************************)
(* Bounds of the model.                                                    *)
(***************************************************************************)
MaxRequests == 2

(***************************************************************************)
(* Program constants.                                                      *)
(***************************************************************************)
XRP == "XRP"
XRP_ACCURACY == 6
DUMMY_TX == "dummy_tx"

\* requests in progress at the same time
Slots == { "s1", "s2" }

\* what getLedgerVersion and preparePayment's maxLedgerVersion can answer
LedgerVersions == { 1 }

\* operation ids are UUID strings; the characters that matter are kept
OperationIds == { <<"a", "-", "1">>, <<"a", "-", "2">> }

\* transaction hashes a signer can put into the signed payload (<<>>: none)
ClientHashes == { <<"h">> }

\* signed transaction strings of a payload ("": none, i.e. simulated)
SignedStrings == { "", "signed_tx" }

\* operation.OperationId.replace(/[{}-]/g, "")
NormalizeOperationId(operationId) ==
    SelectSeq(operationId, LAMBDA ch : ch \notin {"{", "}", "-"})

TxIds == ClientHashes \cup { NormalizeOperationId(o) : o \in OperationIds }

\* ledger result codes, split into the three-letter class and the rest
ResultCode(class, rest) == [class |-> class, rest |-> rest]
tesSUCCESS == ResultCode("tes", "SUCCESS")
tefPAST_SEQ == ResultCode("tef", "PAST_SEQ")
tefMAX_LEDGER == ResultCode("tef", "MAX_LEDGER")
ResultCodes == { tesSUCCESS, tefPAST_SEQ, tefMAX_LEDGER,
                 ResultCode("tef", "ALREADY"), ResultCode("tem", "MALFORMED") }

\* resultCode.startsWith("tem")
StartsWithTem(resultCode) == resultCode.class = "tem"

\* addresses: base address and optional tag, written base+tag
Address(base, tag) == [base |-> base, tag |-> tag]
AddrA == Address("rA", "")
AddrATagged == Address("rA", "1")
AddrB == Address("rB", "")
NoAddress == Address("", "")

\* request.fromAddress.split(ADDRESS_SEPARATOR)[0]
BaseOf(address) == address.base

(***************************************************************************)
(* Decimal amounts (JavaScript numbers holding asset amounts).             *)
(***************************************************************************)
Decimal(mant, scale) == [mant |-> mant, scale |-> scale]
ZeroDecimal == Decimal(0, 0)

(***************************************************************************)
(* Operation store: OperationEntity, OperationRepository.                  *)
(***************************************************************************)
\* a row of RippleOperations; exists is FALSE while the table has no row
NoEntity ==
    [ exists |-> FALSE,
      FromAddress |-> NoAddress, ToAddress |-> NoAddress, AssetId |-> "",
      Amount |-> ZeroDecimal, AmountInBaseUnit |-> 0,
      Fee |-> ZeroDecimal, FeeInBaseUnit |-> 0,
      BuildTime |-> 0, SendTime |-> 0, TxId |-> <<>>, CompletionTime |-> 0,
      BlockTime |-> 0, Block |-> 0, Expiration |-> 0,
      FailTime |-> 0, Error |-> "", ErrorCode |-> "", DeleteTime |-> 0 ]

\* faulty variant of isRunning: a sent operation does not count as running
\* before it is completed or failed
isRunningOnceSettled(operation) ==
    operation.CompletionTime # 0 \/ operation.FailTime # 0

\* get isRunning()
isRunning(operation) ==
    operation.SendTime # 0 \/ operation.CompletionTime # 0 \/ operation.FailTime # 0

\* AzureRepository.insertOrMerge: the row is created when missing, the
\* columns the entity defines replace the stored ones, the others are kept
InsertOrMerge(stored, entity) ==
    [ c \in DOMAIN NoEntity |->
        IF c = "exists" THEN TRUE
        ELSE IF c \in DOMAIN entity THEN entity[c] ELSE stored[c] ]

\* the parameter names of update() and the columns they are copied to
UpdateColumns ==
    { <<"sendTime", "SendTime">>, <<"completionTime", "CompletionTime">>,
      <<"failTime", "FailTime">>, <<"deleteTime", "DeleteTime">>,
      <<"txId", "TxId">>, <<"blockTime", "BlockTime">>, <<"block", "Block">>,
      <<"error", "Error">>, <<"errorCode", "ErrorCode">> }

\* faulty variant of UpdateEntity: a parameter that is not passed clears its
\* column instead of leaving it out of the merge
UpdateEntityReplacing(operation) ==
    [ col \in { c[2] : c \in UpdateColumns } |->
        LET c == CHOOSE x \in UpdateColumns : x[2] = col
        IN  IF c[1] \in DOMAIN operation THEN operation[c[1]] ELSE NoEntity[col] ]

\* the OperationEntity that update() fills from its argument: a property of
\* the argument that update() does not copy (blockchainError) is dropped
UpdateEntity(operation) ==
    LET copied == { c \in UpdateColumns : c[1] \in DOMAIN operation }
    IN  [ col \in { c[2] : c \in copied } |->
            operation[(CHOOSE c \in copied : c[2] = col)[1]] ]

\* OperationRepository.update, second write: the operation row
UpdateOperation(table, operationId, operation) ==
    [table EXCEPT ![operationId] = InsertOrMerge(@, UpdateEntity(operation))]

\* faulty variant of UpdateTxIndex: the index is never written
UpdateTxIndexSkipped(index, operationId, operation) == index

\* OperationRepository.update, first write: the transaction index
UpdateTxIndex(index, operationId, operation) ==
    IF "txId" \in DOMAIN operation /\ operation.txId # <<>>
    THEN [index EXCEPT ![operation.txId] = operationId]
    ELSE index

\* OperationRepository.upsert, first write: the operation row
UpsertOperation(table, operationId, assetId, fromAddress, toAddress, amount, amountInBaseUnit, fee, feeInBaseUnit, expiration, buildTime) ==
    LET always == [ AssetId |-> assetId, FromAddress |-> fromAddress,
                    ToAddress |-> toAddress, Amount |-> amount,
                    AmountInBaseUnit |-> amountInBaseUnit,
                    BuildTime |-> buildTime,
                    Fee |-> fee, FeeInBaseUnit |-> feeInBaseUnit ]
        entity == IF expiration # 0
                  THEN [ c \in DOMAIN always \cup {"Expiration"} |->
                           IF c = "Expiration" THEN expiration ELSE always[c] ]
                  ELSE always
    IN  [table EXCEPT ![operationId] = InsertOrMerge(@, entity)]

\* faulty variant of UpsertExpirationIndex: the row is keyed by the ledger
\* version instead of the expiration
UpsertExpirationIndexByLedgerVersion(index, operationId, expiration) ==
    IF expiration # 0 THEN index \cup { <<expiration \div 10, operationId>> }
    ELSE index

\* OperationRepository.upsert, second write: the expiration index
UpsertExpirationIndex(index, operationId, expiration) ==
    IF expiration # 0 THEN index \cup { <<expiration, operationId>> } ELSE index

\* OperationRepository.getOperationIdByTxId (<<>> stands for null)
getOperationIdByTxId(index, txId) == index[txId]

(***************************************************************************)
(* TransactionsController helpers.                                         *)
(***************************************************************************)
\* getState
getState(operation) ==
    IF operation.FailTime # 0 THEN "failed"
    ELSE IF operation.CompletionTime # 0 THEN "completed"
    ELSE "inProgress"

\* faulty variant of getTimestamp: the fields are tried in the opposite order
getTimestampSendFirst(operation) ==
    IF operation.SendTime # 0 THEN operation.SendTime
    ELSE IF operation.CompletionTime # 0 THEN operation.CompletionTime
    ELSE operation.FailTime

\* getTimestamp
getTimestamp(operation) ==
    IF operation.FailTime # 0 THEN operation.FailTime
    ELSE IF operation.CompletionTime # 0 THEN operation.CompletionTime
    ELSE operation.SendTime

(***************************************************************************)
(* Collaborators outside the operation store.                              *)
(***************************************************************************)
\* settings.RippleApi.Ripple.Reserve, in drops
ReserveInBaseUnit == 1

\* balance of AddrA in the native asset before the first request
InitialBalanceInBaseUnit == 1

\* AssetRepository.get: the registered assets are XRP and the issued
\* currency USD; ZZZ is not registered
USD == "USD"
USD_ACCURACY == 2
AssetIds == { XRP, USD, "ZZZ" }
AssetAccuracy(assetId) ==
    IF assetId = XRP THEN XRP_ACCURACY ELSE IF assetId = USD THEN USD_ACCURACY ELSE 0
AssetExists(assetId) == assetId \in { XRP, USD }

\* currencies an account of the ledger can hold
Currencies == { XRP, USD }

\* AssetEntity.fromBaseUnit
fromBaseUnit(assetId, amountInBaseUnit) ==
    Decimal(amountInBaseUnit, AssetAccuracy(assetId))

RECURSIVE SumAffix(_, _, _)
SumAffix(log, address, assetId) ==
    IF log = <<>> THEN 0
    ELSE (IF Head(log).address = address /\ Head(log).assetId = assetId
          THEN Head(log).affixInBaseUnit ELSE 0)
         + SumAffix(Tail(log), address, assetId)

\* BalanceRepository.get(address, assetId).AmountInBaseUnit: the running
\* balance, i.e. the initial balance plus every delta upserted so far
BalanceInBaseUnit(log, address, assetId) ==
    (IF address = AddrA /\ assetId = XRP THEN InitialBalanceInBaseUnit ELSE 0)
    + SumAffix(log, address, assetId)

(***************************************************************************)
(* Strings and their checks (common.ts).  A string is the sequence of its  *)
(* characters.                                                             *)
(***************************************************************************)
ADDRESS_SEPARATOR == "+"

\* the least element of a non-empty set of numbers
Least(S) == CHOOSE x \in S : \A y \in S : x <= y

\* the characters azureKeyInvalidCharsRegExp matches; of its two ranges of
\* control characters the three it also names stand for all
AzureKeyInvalidChars == { "/", "\\", "#", "?", "\n", "\r", "\t" }

\* the character class of rippleAddressRegExp
RippleAlphabet ==
    {
      "r", "p", "s", "h", "n", "a", "f", "3", "9", "w", "B", "U",
      "D", "N", "E", "G", "H", "J", "K", "L", "M", "4", "P", "Q",
      "R", "S", "T", "7", "V", "W", "X", "Y", "Z", "2", "b", "c",
      "d", "e", "C", "g", "6", "5", "j", "k", "m", "8", "o", "F",
      "q", "i", "1", "t", "u", "v", "A", "x", "y", "z" }

\* \d, and the value of a digit
DigitChars == << "0", "1", "2", "3", "4", "5", "6", "7", "8", "9" >>
IsDigit(c) == \E d \in 1..10 : DigitChars[d] = c
DigitValue(c) == (CHOOSE d \in 1..10 : DigitChars[d] = c) - 1

\* the largest destination tag isRippleAddress accepts, 4294967295, digit
\* by digit
MaxTag == << "4", "2", "9", "4", "9", "6", "7", "2", "9", "5" >>

\* azureKeyInvalidCharsRegExp.test(str).  The expression has the g flag, so
\* test() searches from the expression's lastIndex (a position counted from
\* 0) and leaves lastIndex behind the match it found, or at 0 when it found
\* none; lastIndex stays with the expression from one call to the next.
TestAzureKeyInvalidChars(str, lastIndex) ==
    LET matches == { i \in (lastIndex + 1)..Len(str) : str[i] \in AzureKeyInvalidChars }
    IN  IF matches = {}
        THEN [ found |-> FALSE, lastIndex |-> 0 ]
        ELSE [ found |-> TRUE, lastIndex |-> Least(matches) ]

\* rippleAddressRegExp.test(str): r and 27 to 35 characters of the alphabet
TestRippleAddress(str) ==
    /\ Len(str) - 1 >= 27
    /\ Len(str) - 1 <= 35
    /\ str[1] = "r"
    /\ \A i \in 2..Len(str) : str[i] \in RippleAlphabet

\* positiveIntegerRegExp.test(str)
TestPositiveInteger(str) ==
    /\ Len(str) >= 1
    /\ IsDigit(str[1])
    /\ str[1] # "0"
    /\ \A i \in 2..Len(str) : IsDigit(str[i])

\* Number(str) > Number(max) for two strings of digits without a leading
\* zero: the longer is the greater, and of two of one length the one with
\* the greater digit at the first place where they differ
GreaterNumber(str, max) ==
    \/ Len(str) > Len(max)
    \/ /\ Len(str) = Len(max)
       /\ \E i \in 1..Len(str) :
             /\ \A j \in 1..(i - 1) : str[j] = max[j]
             /\ DigitValue(str[i]) > DigitValue(max[i])

\* str.split(separator)
RECURSIVE Split(_, _)
Split(str, separator) ==
    LET at == { i \in 1..Len(str) : str[i] = separator }
    IN  IF at = {} THEN << str >>
        ELSE << SubSeq(str, 1, Least(at) - 1) >>
             \o Split(SubSeq(str, Least(at) + 1, Len(str)), separator)

\* isRippleAddress(str), called with the given lastIndex of
\* azureKeyInvalidCharsRegExp: the result and the lastIndex the call leaves.
\* parts[1] is the second part of the split; a missing part is falsy like
\* the empty string.  isNaN(tag) is only reached for a string that
\* positiveIntegerRegExp accepts, whose Number is never NaN.
isRippleAddress(str, lastIndex) ==
    LET invalid == TestAzureKeyInvalidChars(str, lastIndex)
        parts == Split(str, ADDRESS_SEPARATOR)
        tagPart == IF Len(parts) > 1 THEN parts[2] ELSE <<>>
    IN  IF str = <<>>
        THEN [ result |-> FALSE, lastIndex |-> lastIndex ]
        ELSE IF invalid.found
        THEN [ result |-> FALSE, lastIndex |-> invalid.lastIndex ]
        ELSE [ result |->
                 ~( \/ ~TestRippleAddress(parts[1])
                    \/ ( /\ tagPart # <<>>
                         /\ tagPart # << "0" >>
                         /\ ( \/ ~TestPositiveInteger(tagPart)
                              \/ GreaterNumber(tagPart, MaxTag) ) ) ),
               lastIndex |-> invalid.lastIndex ]

\* the strings checked in a run: an account address of 28 characters, alone
\* and followed by tags, by further parts and by characters that are
\* invalid in a storage key
RippleBase == << "r" >> \o [ i \in 1..27 |-> "p" ]
Strings ==
    { <<>>,
      RippleBase,
      SubSeq(RippleBase, 1, 27),
      RippleBase \o << "+" >>,
      RippleBase \o << "+", "0" >>,
      RippleBase \o << "+", "1" >>,
      RippleBase \o << "+", "0", "1" >>,
      RippleBase \o << "+", "4", "2", "9", "4", "9", "6", "7", "2", "9", "5" >>,
      RippleBase \o << "+", "4", "2", "9", "4", "9", "6", "7", "2", "9", "6" >>,
      RippleBase \o << "/" >>,
      RippleBase \o << "+", "1", "+", "/" >>,
      RippleBase \o << "+", "1", "+", "\n", "#" >> }

(***************************************************************************)
(* Numbers of the migration.                                               *)
(***************************************************************************)
\* the JavaScript number page / 10, in tenths when it is not whole
TenthOf(page) ==
    IF page % 10 = 0 THEN Decimal(page \div 10, 0) ELSE Decimal(page, 1)

\* the C# long page / 10: the division of integers drops the remainder
IntegerTenthOf(page) == Decimal(page \div 10, 0)

\* the latest page of the v1 transactions collection is between 0 and this
MaxPage == 41

(***************************************************************************)
(* State.                                                                  *)
(***************************************************************************)
VARIABLES
    operations,      \* table RippleOperations: operation id -> row
    operationsByTxId,        \* table RippleOperationsByTxId: hash -> operation id
    operationsByExpiration,  \* table RippleOperationsByExpiration: set of rows
    balanceUpserts,  \* calls of balanceRepository.upsert, in order
    historyUpserts,  \* calls of historyRepository.upsert, in order
    submits,         \* calls of rippleService.submit, in order
    started,         \* number of requests received so far
    pc,              \* per request slot: the await the handler is at
    local,           \* per request slot: the handler's local variables
    response,        \* outcome of the request that ended last
    connected,       \* RippleService: this._api.isConnected()
    connecting,      \* RippleService: calls of this._api.connect() in progress
    invoked,         \* RippleService: primitives invoked on the client, in order
    call,            \* RippleService: per caller, where its call is
    lastIndex,       \* azureKeyInvalidCharsRegExp.lastIndex
    checked,         \* calls of isRippleAddress and their results, in order
    validation,      \* AddressesController.isValid: the request in progress
    validity,        \* AddressesController.isValid: the answer given last
    lastTransactionPages,  \* migration: the v1 query for the latest page
    params,          \* table RippleParams: its one row
    migrated         \* migration: who ran last

\* new Date(): the clock reading
now == started + 1

vars == << operations, operationsByTxId, operationsByExpiration, balanceUpserts,
           historyUpserts, submits, started, pc, local, response >>

stores == << operations, operationsByTxId, operationsByExpiration >>
effects == << balanceUpserts, historyUpserts, submits >>

\* the state of the ledger adapter, of the address checks and of the
\* migration; a step of a transaction handler leaves it alone
adapter == << connected, connecting, invoked, call >>
checks == << lastIndex, checked, validation, validity >>
migration == << lastTransactionPages, params, migrated >>
aside == << adapter, checks, migration >>

NoData == [signedTransaction |-> "", id |-> <<>>]
NoResultCode == ResultCode("", "")
NoRequest ==
    [assetId |-> "", fromAddress |-> NoAddress, toAddress |-> NoAddress,
     amount |-> 0, includeFee |-> FALSE]

NoLocal ==
    [ handler |-> "", operationId |-> <<>>, operation |-> NoEntity,
      sendTime |-> 0, block |-> 0, blockTime |-> 0, completionTime |-> 0,
      data |-> NoData, txId |-> <<>>, operationIdByTxId |-> <<>>,
      result |-> NoResultCode,
      request |-> NoRequest, amount |-> ZeroDecimal, amountInBaseUnit |-> 0,
      fee |-> ZeroDecimal, feeInBaseUnit |-> 0, expiration |-> 0, tx |-> "",
      balances |-> [c \in Currencies |-> 0], maxLedgerVersion |-> 0 ]

NoStatus ==
    [ present |-> FALSE, state |-> "", timestamp |-> 0, amount |-> 0, fee |-> 0,
      hash |-> <<>>, block |-> 0, error |-> "", errorCode |-> "",
      blockchainError |-> NoResultCode ]

\* what a BlockchainError carries besides message and code: the ledger's
\* answer, or the owner of the duplicated hash
NoErrorData == [ resultCode |-> NoResultCode, operationIdByTxId |-> <<>> ]

NoResponse ==
    [ handler |-> "", operationId |-> <<>>, status |-> 0, message |-> "",
      errorCode |-> "", data |-> NoErrorData, state |-> "", txId |-> <<>>,
      transactionContext |-> "", body |-> NoStatus ]

\* outcome of a request of the given handler for the given operation
Reply(handler, operationId, status) ==
    [NoResponse EXCEPT !.handler = handler, !.operationId = operationId,
                       !.status = status]

\* new BlockchainError(status, message, errorCode)
BlockchainError(handler, operationId, status, message, errorCode) ==
    [Reply(handler, operationId, status) EXCEPT !.message = message,
                                                  !.errorCode = errorCode]

\* new BlockchainError(status, message, errorCode, data)
BlockchainErrorWith(handler, operationId, status, message, errorCode, data) ==
    [BlockchainError(handler, operationId, status, message, errorCode)
       EXCEPT !.data = data]

(***************************************************************************)
(* The ledger adapter, the address checks and the migration at rest.       *)
(***************************************************************************)
\* a caller of the adapter: where its call is, and the primitive it wants
NoCall == [ at |-> "idle", primitive |-> "" ]

\* new RippleAPI(...): the client is constructed and not connected
InitAdapter ==
    /\ connected = FALSE
    /\ connecting = 0
    /\ invoked = <<>>
    /\ call = [r \in Slots |-> NoCall]

\* the settings of an account as getSettings answers them, or its failure
NoSettings == [ fetched |-> FALSE, requireDestinationTag |-> FALSE ]
NoValidation == [ at |-> "idle", address |-> <<>> ]
NoValidity ==
    [ answered |-> FALSE, address |-> <<>>, settings |-> NoSettings,
      isValid |-> FALSE ]

\* a regular expression literal starts with lastIndex 0
InitChecks ==
    /\ lastIndex = 0
    /\ checked = <<>>
    /\ validation = NoValidation
    /\ validity = NoValidity

\* the row of RippleParams; exists is FALSE while the table has no row
NoParams == [ exists |-> FALSE, LastProcessedLedger |-> ZeroDecimal ]

\* no v1 database to migrate
NoMigration ==
    /\ lastTransactionPages = <<>>
    /\ params = NoParams
    /\ migrated = ""

\* The tables before the first request of a run hold what earlier builds
\* left: per operation id nothing, a same-owner operation or a cross-address
\* operation, each as buildSingle stores it (the two ids are interchangeable,
\* so one order of each pair of kinds is enough).
BuildKindRank(kind) == IF kind = "none" THEN 0 ELSE IF kind = "same" THEN 1 ELSE 2
EarlierBuilds ==
    { built \in [OperationIds -> {"none", "same", "cross"}] :
        BuildKindRank(built[<<"a", "-", "1">>]) <= BuildKindRank(built[<<"a", "-", "2">>]) }

BuiltRow(operationId, kind) ==
    IF kind = "same"
    THEN UpsertOperation([o \in {operationId} |-> NoEntity], operationId, XRP,
             AddrA, AddrATagged, fromBaseUnit(XRP, 1), 1, ZeroDecimal, 0, 0, 1)[operationId]
    ELSE IF kind = "cross"
    THEN UpsertOperation([o \in {operationId} |-> NoEntity], operationId, XRP,
             AddrA, AddrB, fromBaseUnit(XRP, 1), 1, Decimal(1, XRP_ACCURACY), 1,
             10, 1)[operationId]
    ELSE NoEntity

Init ==
    /\ \E built \in EarlierBuilds :
          /\ operations = [o \in OperationIds |-> BuiltRow(o, built[o])]
          /\ operationsByExpiration =
                 { <<10, o>> : o \in { x \in OperationIds : built[x] = "cross" } }
    /\ operationsByTxId = [t \in TxIds |-> <<>>]
    /\ balanceUpserts = <<>>
    /\ historyUpserts = <<>>
    /\ submits = <<>>
    /\ started = 0
    /\ pc = [r \in Slots |-> "idle"]
    /\ local = [r \in Slots |-> NoLocal]
    /\ response = NoResponse
    /\ InitAdapter
    /\ InitChecks
    /\ NoMigration

\* the handler of slot r returns or throws: the slot is free again
Finish(r, outcome) ==
    /\ pc' = [pc EXCEPT ![r] = "idle"]
    /\ local' = [local EXCEPT ![r] = NoLocal]
    /\ response' = outcome
    /\ UNCHANGED aside

\* the handler of slot r goes on to its next await
Goto(r, at, locals) ==
    /\ pc' = [pc EXCEPT ![r] = at]
    /\ local' = [local EXCEPT ![r] = locals]
    /\ UNCHANGED << response, aside >>

\* a request arrives at the free slot r
Receive(r) ==
    /\ pc[r] = "idle"
    /\ started < MaxRequests
    /\ started' = started + 1

(***************************************************************************)
(* TransactionsController.broadcast                                        *)
(***************************************************************************)
\* data.id || operation.OperationId.replace(/[{}-]/g, "")
CandidateTxId(data, operationId) ==
    IF data.id # <<>> THEN data.id ELSE NormalizeOperationId(operationId)

\* faulty variant of BroadcastGuard: only a completed operation conflicts
BroadcastGuardCompletedOnly(operation) ==
    IF ~operation.exists THEN "unknown"
    ELSE IF operation.FailTime # 0 THEN "failed"
    ELSE IF operation.CompletionTime # 0 THEN "conflict"
    ELSE "pass"

\* faulty variant of BroadcastGuard: a failed operation conflicts like a sent
\* one instead of replaying its error
BroadcastGuardFailedConflicts(operation) ==
    IF ~operation.exists THEN "unknown"
    ELSE IF operation.FailTime # 0 \/ operation.SendTime # 0
            \/ operation.CompletionTime # 0 THEN "conflict"
    ELSE "pass"

\* faulty variant of BroadcastGuard: a missing operation is not refused
BroadcastGuardUnknownPasses(operation) ==
    IF operation.exists /\ operation.FailTime # 0 THEN "failed"
    ELSE IF operation.SendTime # 0 \/ operation.CompletionTime # 0 THEN "conflict"
    ELSE "pass"

\* the state check on the operation just read
BroadcastGuard(operation) ==
    IF ~operation.exists THEN "unknown"
    ELSE IF operation.FailTime # 0 THEN "failed"
    ELSE IF operation.SendTime # 0 \/ operation.CompletionTime # 0 THEN "conflict"
    ELSE "pass"

\* operationRepository.get, the state check, and the locals computed before
\* the hash lookup (getLedgerVersion is called only if the row has no Block)
BroadcastBegin(r, operationId, data, ledgerVersion) ==
    LET operation == operations[operationId]
        guard == BroadcastGuard(operation)
        sendTime == now'
    IN  /\ Receive(r)
        /\ UNCHANGED << stores, effects >>
        /\ IF guard = "unknown"
           THEN /\ Finish(r, BlockchainError("broadcast", operationId, 400,
                                             "Unknown operation", ""))
           ELSE IF guard = "failed"
           THEN /\ Finish(r, BlockchainError("broadcast", operationId, 400,
                                       operation.Error, operation.ErrorCode))
           ELSE IF guard = "conflict"
           THEN /\ Finish(r, [BlockchainError("broadcast", operationId, 409,
                                              "Operation already", "")
                                EXCEPT !.state = getState(operation)])
           ELSE Goto(r, "lookup",
                     [NoLocal EXCEPT
                        !.handler = "broadcast",
                        !.operationId = operationId,
                        !.operation = operation,
                        !.sendTime = sendTime,
                        !.block = IF operation.Block # 0 THEN operation.Block
                                  ELSE ledgerVersion * 10 + 1,
                        !.blockTime = IF operation.BlockTime # 0
                                      THEN operation.BlockTime ELSE sendTime,
                        !.completionTime = IF operation.CompletionTime # 0
                                           THEN operation.CompletionTime
                                           ELSE sendTime,
                        !.data = data,
                        !.txId = CandidateTxId(data, operationId)])

\* faulty variant of IsDuplicatedHash: the comparison is the wrong way round
IsDuplicatedHashInverted(operationIdByTxId, operationId) ==
    operationIdByTxId # <<>> /\ operationIdByTxId = operationId

\* the duplicate-hash test on the index row read by getOperationIdByTxId
IsDuplicatedHash(operationIdByTxId, operationId) ==
    operationIdByTxId # <<>> /\ operationIdByTxId # operationId

\* operationRepository.getOperationIdByTxId and the duplicate-hash test
BroadcastLookup(r) ==
    LET l == local[r]
        operationIdByTxId == getOperationIdByTxId(operationsByTxId, l.txId)
    IN  /\ pc[r] = "lookup"
        /\ Goto(r, IF IsDuplicatedHash(operationIdByTxId, l.operationId)
                   THEN "duplicate" ELSE "index",
                [l EXCEPT !.operationIdByTxId = operationIdByTxId])
        /\ UNCHANGED << stores, effects, started >>

\* duplicate hash: update(operationId, { blockchainError }) and throw
BroadcastDuplicate(r) ==
    LET l == local[r] IN
    /\ pc[r] = "duplicate"
    /\ operations' = UpdateOperation(operations, l.operationId,
                        [blockchainError |-> "Duplicated transaction hash"])
    /\ Finish(r, BlockchainErrorWith("broadcast", l.operationId, 400,
                   "Duplicated transaction hash", "buildingShouldBeRepeated",
                   [NoErrorData EXCEPT !.operationIdByTxId = l.operationIdByTxId]))
    /\ UNCHANGED << operationsByTxId, operationsByExpiration, effects, started >>

\* update(operationId, { txId }), first write: the transaction index
BroadcastIndex(r) ==
    LET l == local[r] IN
    /\ pc[r] = "index"
    /\ operationsByTxId' = UpdateTxIndex(operationsByTxId, l.operationId,
                                         [txId |-> l.txId])
    /\ Goto(r, "attach", l)
    /\ UNCHANGED << operations, operationsByExpiration, effects, started >>

\* update(operationId, { txId }), second write: the operation row
BroadcastAttach(r) ==
    LET l == local[r] IN
    /\ pc[r] = "attach"
    /\ operations' = UpdateOperation(operations, l.operationId, [txId |-> l.txId])
    /\ Goto(r, IF l.data.signedTransaction # "" THEN "submit" ELSE "debit", l)
    /\ UNCHANGED << operationsByTxId, operationsByExpiration, effects, started >>

\* rippleService.submit(data.signedTransaction)
BroadcastSubmit(r, resultCode) ==
    LET l == local[r] IN
    /\ pc[r] = "submit"
    /\ submits' = Append(submits, [operationId |-> l.operationId,
                                   signedTransaction |-> l.data.signedTransaction])
    /\ Goto(r, IF resultCode # tesSUCCESS THEN "annotate" ELSE "send",
            [l EXCEPT !.result = resultCode])
    /\ UNCHANGED << stores, balanceUpserts, historyUpserts, started >>

\* faulty variant of Rejection: tefMAX_LEDGER is not rejected
RejectionPastSeqOnly(resultCode) ==
    IF resultCode = tefPAST_SEQ THEN "buildingShouldBeRepeated"
    ELSE IF StartsWithTem(resultCode) THEN "unknown"
    ELSE ""

\* faulty variant of Rejection: malformed transactions are not rejected
RejectionWithoutTem(resultCode) ==
    IF resultCode = tefPAST_SEQ \/ resultCode = tefMAX_LEDGER
    THEN "buildingShouldBeRepeated"
    ELSE ""

\* faulty variant of Rejection: every tef code is rejected
RejectionEveryTef(resultCode) ==
    IF resultCode.class = "tef" THEN "buildingShouldBeRepeated"
    ELSE IF StartsWithTem(resultCode) THEN "unknown"
    ELSE ""

\* how broadcast goes on after a result code other than tesSUCCESS
Rejection(resultCode) ==
    IF resultCode = tefPAST_SEQ \/ resultCode = tefMAX_LEDGER
    THEN "buildingShouldBeRepeated"
    ELSE IF StartsWithTem(resultCode) THEN "unknown"
    ELSE ""

\* result other than tesSUCCESS: update(operationId, { blockchainError }),
\* then throw for the codes that reject the transaction
BroadcastAnnotate(r) ==
    LET l == local[r]
        rejection == Rejection(l.result)
    IN  /\ pc[r] = "annotate"
        /\ operations' = UpdateOperation(operations, l.operationId,
                                         [blockchainError |-> l.result])
        /\ IF rejection # ""
           THEN Finish(r, BlockchainErrorWith("broadcast", l.operationId, 400,
                           "Transaction rejected", rejection,
                           [NoErrorData EXCEPT !.resultCode = l.result]))
           ELSE Goto(r, "send", l)
        /\ UNCHANGED << operationsByTxId, operationsByExpiration, effects, started >>

\* update(operationId, { sendTime }) and return { txId }
BroadcastSend(r) ==
    LET l == local[r] IN
    /\ pc[r] = "send"
    /\ operations' = UpdateOperation(operations, l.operationId,
                                     [sendTime |-> l.sendTime])
    /\ Finish(r, [Reply("broadcast", l.operationId, 200) EXCEPT !.txId = l.txId])
    /\ UNCHANGED << operationsByTxId, operationsByExpiration, effects, started >>

\* Decimal negation
Negate(d) == Decimal(0 - d.mant, d.scale)

\* faulty variant of balanceChanges: the sender is credited as well
balanceChangesBothCredited(operation) ==
    << [address |-> operation.FromAddress, affix |-> operation.Amount,
        affixInBaseUnit |-> operation.AmountInBaseUnit],
       [address |-> operation.ToAddress, affix |-> operation.Amount,
        affixInBaseUnit |-> operation.AmountInBaseUnit] >>

\* balanceChanges of the simulated path
balanceChanges(operation) ==
    << [address |-> operation.FromAddress, affix |-> Negate(operation.Amount),
        affixInBaseUnit |-> 0 - operation.AmountInBaseUnit],
       [address |-> operation.ToAddress, affix |-> operation.Amount,
        affixInBaseUnit |-> operation.AmountInBaseUnit] >>

\* balanceRepository.upsert for balanceChanges[i]
BroadcastBalance(r, i) ==
    LET l == local[r]
        bc == balanceChanges(l.operation)[i]
    IN  /\ pc[r] = (IF i = 1 THEN "debit" ELSE "credit")
        /\ balanceUpserts' = Append(balanceUpserts,
               [address |-> bc.address, assetId |-> l.operation.AssetId,
                operationId |-> l.operationId, affix |-> bc.affix,
                affixInBaseUnit |-> bc.affixInBaseUnit, block |-> l.block])
        /\ Goto(r, IF i = 1 THEN "credit" ELSE "history", l)
        /\ UNCHANGED << stores, historyUpserts, submits, started >>

\* historyRepository.upsert
BroadcastHistory(r) ==
    LET l == local[r] IN
    /\ pc[r] = "history"
    /\ historyUpserts' = Append(historyUpserts,
           [from |-> l.operation.FromAddress, to |-> l.operation.ToAddress,
            assetId |-> l.operation.AssetId, amount |-> l.operation.Amount,
            amountInBaseUnit |-> l.operation.AmountInBaseUnit,
            block |-> l.block, blockTime |-> l.blockTime, txId |-> l.txId,
            operationId |-> l.operationId])
    /\ Goto(r, "complete", l)
    /\ UNCHANGED << stores, balanceUpserts, submits, started >>

\* faulty variant of BroadcastComplete: only SendTime is recorded
BroadcastCompleteSendOnly(r) ==
    LET l == local[r] IN
    /\ pc[r] = "complete"
    /\ operations' = UpdateOperation(operations, l.operationId,
                                     [sendTime |-> l.sendTime])
    /\ Finish(r, [Reply("broadcast", l.operationId, 200) EXCEPT !.txId = l.txId])
    /\ UNCHANGED << operationsByTxId, operationsByExpiration, effects, started >>

\* update(operationId, { sendTime, completionTime, blockTime, block })
BroadcastComplete(r) ==
    LET l == local[r] IN
    /\ pc[r] = "complete"
    /\ operations' = UpdateOperation(operations, l.operationId,
           [sendTime |-> l.sendTime, completionTime |-> l.completionTime,
            blockTime |-> l.blockTime, block |-> l.block])
    /\ Finish(r, [Reply("broadcast", l.operationId, 200) EXCEPT !.txId = l.txId])
    /\ UNCHANGED << operationsByTxId, operationsByExpiration, effects, started >>

(***************************************************************************)
(* TransactionsController.buildSingle                                      *)
(***************************************************************************)
\* requests a client can send, and what the ledger can answer
BuildRequest(assetId, toAddress, amount, includeFee) ==
    [ assetId |-> assetId, fromAddress |-> AddrA, toAddress |-> toAddress,
      amount |-> amount, includeFee |-> includeFee ]
BuildRequests ==
    { BuildRequest(XRP, AddrATagged, 1, FALSE), BuildRequest(XRP, AddrB, 1, FALSE),
      BuildRequest(XRP, AddrB, 1, TRUE), BuildRequest(XRP, AddrB, 0, FALSE),
      BuildRequest(USD, AddrB, 1, FALSE), BuildRequest("ZZZ", AddrB, 1, FALSE) }
FeesInBaseUnit == { 1, 2 }
LedgerBalancesInBaseUnit == { 0, ReserveInBaseUnit + 1, ReserveInBaseUnit + 2 }

\* transaction.instructions.maxLedgerVersion of preparePayment: the ledger
\* moves on between two builds
MaxLedgerVersions == { 1, 2 }

\* what getBalances can answer, per currency in units of 10^-accuracy
\* (0: the currency is missing from the answer)
LedgerBalances ==
    { [c \in Currencies |-> IF c = XRP THEN x ELSE u] :
        x \in LedgerBalancesInBaseUnit, u \in 0..1 }

\* operationRepository.get, the state check, assetRepository.get and the
\* amount check
BuildBegin(r, operationId, request) ==
    LET operation == operations[operationId]
        amountInBaseUnit == request.amount
    IN  /\ Receive(r)
        /\ UNCHANGED << stores, effects >>
        /\ IF operation.exists /\ isRunning(operation)
           THEN Finish(r, [BlockchainError("buildSingle", operationId, 409,
                                           "Operation already", "")
                             EXCEPT !.state = getState(operation)])
           ELSE IF ~AssetExists(request.assetId)
           THEN Finish(r, BlockchainError("buildSingle", operationId, 400,
                                          "Unknown asset", ""))
           ELSE IF amountInBaseUnit <= 0
           THEN Finish(r, BlockchainError("buildSingle", operationId, 400,
                                          "Invalid amount", ""))
           ELSE Goto(r, IF BaseOf(request.fromAddress) = BaseOf(request.toAddress)
                        THEN "balance" ELSE "prepare",
                     [NoLocal EXCEPT
                        !.handler = "buildSingle",
                        !.operationId = operationId,
                        !.request = request,
                        !.amountInBaseUnit = amountInBaseUnit,
                        !.amount = fromBaseUnit(request.assetId, amountInBaseUnit)])

\* faulty variant of BuildBalance: the operation is stored before the
\* balance is checked
BuildBalanceAfterUpsert(r) ==
    LET l == local[r]
        balanceInBaseUnit ==
            BalanceInBaseUnit(balanceUpserts, l.request.fromAddress, l.request.assetId)
    IN  /\ pc[r] = "balance"
        /\ operations' = UpsertOperation(operations, l.operationId, l.request.assetId,
                            l.request.fromAddress, l.request.toAddress, l.amount,
                            l.amountInBaseUnit, ZeroDecimal, 0, 0, now)
        /\ IF balanceInBaseUnit < l.amountInBaseUnit
           THEN Finish(r, BlockchainError("buildSingle", l.operationId, 400,
                                          "Not enough", "notEnoughBalance"))
           ELSE Goto(r, "upsert",
                     [l EXCEPT !.expiration = 0, !.tx = DUMMY_TX,
                               !.fee = ZeroDecimal, !.feeInBaseUnit = 0])
        /\ UNCHANGED << operationsByTxId, operationsByExpiration, effects, started >>

\* same base address: balanceRepository.get and the balance check
BuildBalance(r) ==
    LET l == local[r]
        balanceInBaseUnit ==
            BalanceInBaseUnit(balanceUpserts, l.request.fromAddress, l.request.assetId)
    IN  /\ pc[r] = "balance"
        /\ IF balanceInBaseUnit < l.amountInBaseUnit
           THEN Finish(r, BlockchainError("buildSingle", l.operationId, 400,
                                          "Not enough", "notEnoughBalance"))
           ELSE Goto(r, "upsert",
                     [l EXCEPT !.expiration = 0, !.tx = DUMMY_TX,
                               !.fee = ZeroDecimal, !.feeInBaseUnit = 0])
        /\ UNCHANGED << stores, effects, started >>

\* faulty variant of Requirement: the account reserve is not required
RequirementWithoutReserve(assetId, includeFee, amount, fee) ==
    LET tooSmall == assetId = XRP /\ includeFee /\ ~(amount.mant >= fee.mant)
        sent == IF assetId = XRP /\ includeFee /\ ~tooSmall
                THEN Decimal(amount.mant - fee.mant, amount.scale)
                ELSE amount
    IN  [ tooSmall |-> tooSmall,
          amount |-> sent,
          required |-> IF assetId = XRP
                       THEN [ c \in {XRP} |-> sent.mant + fee.mant ]
                       ELSE [ c \in {XRP, assetId} |->
                                IF c = XRP THEN fee.mant ELSE sent.mant ] ]

\* the amount to send and the balances the source address must hold; fee and
\* reserve are in the native asset
Requirement(assetId, includeFee, amount, fee) ==
    LET reserve == ReserveInBaseUnit
        tooSmall == assetId = XRP /\ includeFee /\ ~(amount.mant >= fee.mant)
        sent == IF assetId = XRP /\ includeFee /\ ~tooSmall
                THEN Decimal(amount.mant - fee.mant, amount.scale)
                ELSE amount
    IN  [ tooSmall |-> tooSmall,
          amount |-> sent,
          required |-> IF assetId = XRP
                       THEN [ c \in {XRP} |-> reserve + sent.mant + fee.mant ]
                       ELSE [ c \in {XRP, assetId} |->
                                IF c = XRP THEN reserve + fee.mant ELSE sent.mant ] ]

\* some required currency is missing from the balances or is too low
NotEnough(required, balances) ==
    \E k \in DOMAIN required : balances[k] = 0 \/ balances[k] < required[k]

\* other base address: getFee, getBalances, the balance check and
\* preparePayment
BuildPrepare(r, feeInBaseUnit, balances, maxLedgerVersion) ==
    LET l == local[r]
        fee == Decimal(feeInBaseUnit, XRP_ACCURACY)
        req == Requirement(l.request.assetId, l.request.includeFee, l.amount, fee)
    IN  /\ pc[r] = "prepare"
        /\ IF req.tooSmall
           THEN Finish(r, BlockchainError("buildSingle", l.operationId, 400,
                                          "Amount is less than fee", "amountIsTooSmall"))
           ELSE IF NotEnough(req.required, balances)
           THEN Finish(r, BlockchainError("buildSingle", l.operationId, 400,
                                          "Not enough", "notEnoughBalance"))
           ELSE Goto(r, "upsert",
                     [l EXCEPT !.amount = req.amount, !.fee = fee,
                               !.feeInBaseUnit = feeInBaseUnit,
                               !.expiration = maxLedgerVersion * 10,
                               !.tx = "txJSON", !.balances = balances,
                               !.maxLedgerVersion = maxLedgerVersion])
        /\ UNCHANGED << stores, effects, started >>

\* operationRepository.upsert, first write; without an expiration the
\* handler returns
BuildUpsert(r) ==
    LET l == local[r] IN
    /\ pc[r] = "upsert"
    /\ operations' = UpsertOperation(operations, l.operationId, l.request.assetId,
                        l.request.fromAddress, l.request.toAddress, l.amount,
                        l.amountInBaseUnit, l.fee, l.feeInBaseUnit, l.expiration, now)
    /\ IF l.expiration # 0
       THEN Goto(r, "expiration", l)
       ELSE Finish(r, [Reply("buildSingle", l.operationId, 200)
                         EXCEPT !.transactionContext = l.tx])
    /\ UNCHANGED << operationsByTxId, operationsByExpiration, effects, started >>

\* operationRepository.upsert, second write, and return
BuildExpiration(r) ==
    LET l == local[r] IN
    /\ pc[r] = "expiration"
    /\ operationsByExpiration' =
           UpsertExpirationIndex(operationsByExpiration, l.operationId, l.expiration)
    /\ Finish(r, [Reply("buildSingle", l.operationId, 200)
                    EXCEPT !.transactionContext = l.tx])
    /\ UNCHANGED << operations, operationsByTxId, effects, started >>

(***************************************************************************)
(* TransactionsController.getSingle and deleteBroadcasted                  *)
(***************************************************************************)
\* operation.BlockchainError: the property of the entity read from the table,
\* undefined when the row has no such column
BlockchainErrorOf(operation) ==
    IF "BlockchainError" \in DOMAIN operation
    THEN operation.BlockchainError ELSE NoResultCode

\* faulty variant of StatusOf: every stored operation is reported
StatusOfEveryRow(operation) ==
    IF operation.exists
    THEN [ present |-> TRUE, state |-> getState(operation),
           timestamp |-> getTimestamp(operation),
           amount |-> operation.AmountInBaseUnit, fee |-> operation.FeeInBaseUnit,
           hash |-> operation.TxId, block |-> operation.Block,
           error |-> operation.Error, errorCode |-> operation.ErrorCode,
           blockchainError |-> BlockchainErrorOf(operation) ]
    ELSE NoStatus

\* the body getSingle returns for the row it read
StatusOf(operation) ==
    IF operation.exists /\ isRunning(operation)
    THEN [ present |-> TRUE, state |-> getState(operation),
           timestamp |-> getTimestamp(operation),
           amount |-> operation.AmountInBaseUnit, fee |-> operation.FeeInBaseUnit,
           hash |-> operation.TxId, block |-> operation.Block,
           error |-> operation.Error, errorCode |-> operation.ErrorCode,
           blockchainError |-> BlockchainErrorOf(operation) ]
    ELSE NoStatus

getSingle(r, operationId) ==
    /\ Receive(r)
    /\ Finish(r, [Reply("getSingle", operationId, 200)
                    EXCEPT !.body = StatusOf(operations[operationId])])
    /\ UNCHANGED << stores, effects >>

\* faulty variant of deleteBroadcasted: the row is replaced by one that holds
\* DeleteTime only
deleteBroadcastedReplacing(r, operationId) ==
    /\ Receive(r)
    /\ operations' = [operations EXCEPT ![operationId] =
                         [NoEntity EXCEPT !.exists = TRUE, !.DeleteTime = now']]
    /\ Finish(r, Reply("deleteBroadcasted", operationId, 200))
    /\ UNCHANGED << operationsByTxId, operationsByExpiration, effects >>

deleteBroadcasted(r, operationId) ==
    /\ Receive(r)
    /\ operations' = UpdateOperation(operations, operationId, [deleteTime |-> now'])
    /\ Finish(r, Reply("deleteBroadcasted", operationId, 200))
    /\ UNCHANGED << operationsByTxId, operationsByExpiration, effects >>

(***************************************************************************)
(* Failures and the specification.                                         *)
(***************************************************************************)
\* the call a handler awaits fails (storage or ledger transport error, or
\* the process dies): the handler ends there with an internal error
Abort(r) ==
    /\ pc[r] # "idle"
    /\ Finish(r, Reply(local[r].handler, local[r].operationId, 500))
    /\ UNCHANGED << stores, effects, started >>

Payloads == [ signedTransaction : SignedStrings, id : ClientHashes \cup {<<>>} ]

(***************************************************************************)
(* The tracking job (another service) settles a sent operation once the    *)
(* ledger has validated or dropped its transaction.                        *)
(***************************************************************************)
TrackingJob(operationId, completed, ledgerVersion) ==
    LET operation == operations[operationId]
        settleTime == now + 1    \* the job reads the clock after the send
    IN
    /\ operation.exists
    /\ operation.SendTime # 0
    /\ operation.CompletionTime = 0
    /\ operation.FailTime = 0
    /\ operations' = UpdateOperation(operations, operationId,
           IF completed
           THEN [completionTime |-> settleTime, blockTime |-> settleTime,
                 block |-> ledgerVersion * 10]
           ELSE [failTime |-> settleTime, error |-> "Transaction failed",
                 errorCode |-> "unknown"])
    /\ UNCHANGED << operationsByTxId, operationsByExpiration, effects, started,
                    pc, local, response, aside >>

\* the steps of the handler running in slot r
Handler(r) ==
    \/ \E o \in OperationIds, d \in Payloads, v \in LedgerVersions :
           BroadcastBegin(r, o, d, v)
    \/ BroadcastLookup(r)
    \/ BroadcastDuplicate(r)
    \/ BroadcastIndex(r)
    \/ BroadcastAttach(r)
    \/ \E c \in ResultCodes : BroadcastSubmit(r, c)
    \/ BroadcastAnnotate(r)
    \/ BroadcastSend(r)
    \/ \E i \in 1..2 : BroadcastBalance(r, i)
    \/ BroadcastHistory(r)
    \/ BroadcastComplete(r)
    \/ \E o \in OperationIds, q \in BuildRequests : BuildBegin(r, o, q)
    \/ BuildBalance(r)
    \/ \E f \in FeesInBaseUnit, b \in LedgerBalances, v \in MaxLedgerVersions :
           BuildPrepare(r, f, b, v)
    \/ BuildUpsert(r)
    \/ BuildExpiration(r)
    \/ \E o \in OperationIds : getSingle(r, o)
    \/ \E o \in OperationIds : deleteBroadcasted(r, o)
    \/ Abort(r)

Settle ==
    \E o \in OperationIds, completed \in BOOLEAN, v \in LedgerVersions :
        TrackingJob(o, completed, v)

Next ==
    \/ \E r \in Slots : Handler(r)
    \/ Settle

Spec == Init /\ [][Next]_vars

\* one request at a time: a client that waits for the answer before it
\* sends the next request
NextSequential ==
    \/ Handler("s1")
    \/ Settle

SpecSequential == Init /\ [][NextSequential]_vars

(***************************************************************************)
(* RippleService, the ledger adapter (src/src/domain/params.ts).           *)
(***************************************************************************)
\* nothing of the transaction handlers has happened
NoTransactions ==
    /\ operations = [o \in OperationIds |-> NoEntity]
    /\ operationsByExpiration = {}
    /\ operationsByTxId = [t \in TxIds |-> <<>>]
    /\ balanceUpserts = <<>>
    /\ historyUpserts = <<>>
    /\ submits = <<>>
    /\ started = 0
    /\ pc = [r \in Slots |-> "idle"]
    /\ local = [r \in Slots |-> NoLocal]
    /\ response = NoResponse

\* the primitives the adapter passes on to the client
Primitives ==
    { "getFee", "preparePayment", "getAccountInfo", "getLedgerVersion",
      "getBalances", "submit", "getSettings" }

\* calls of the adapter in a run
MaxApiCalls == 3

\* calls of the adapter begun so far
ApiCalls == Len(invoked) + Cardinality({ r \in Slots : call[r].at # "idle" })

\* a primitive of the adapter is called: api() reads isConnected() and,
\* when it is false, calls connect() and awaits it
ApiBegin(r, primitive) ==
    /\ call[r].at = "idle"
    /\ ApiCalls < MaxApiCalls
    /\ IF connected
       THEN /\ call' = [call EXCEPT ![r] = [at |-> "then", primitive |-> primitive]]
            /\ UNCHANGED connecting
       ELSE /\ call' = [call EXCEPT ![r] = [at |-> "connect", primitive |-> primitive]]
            /\ connecting' = connecting + 1
    /\ UNCHANGED << connected, invoked, vars, checks, migration >>

\* the connect() a call awaits resolves: the client is connected
ApiConnected(r) ==
    /\ call[r].at = "connect"
    /\ connected' = TRUE
    /\ connecting' = connecting - 1
    /\ call' = [call EXCEPT ![r].at = "then"]
    /\ UNCHANGED << invoked, vars, checks, migration >>

\* .then(api => api.primitive(...)): the primitive is invoked on the client
ApiInvoke(r) ==
    /\ call[r].at = "then"
    /\ invoked' = Append(invoked, [ primitive |-> call[r].primitive,
                                    connected |-> connected ])
    /\ call' = [call EXCEPT ![r] = NoCall]
    /\ UNCHANGED << connected, connecting, vars, checks, migration >>

InitAdapterAlone ==
    /\ NoTransactions
    /\ InitAdapter
    /\ InitChecks
    /\ NoMigration

NextAdapter ==
    \/ \E r \in Slots, primitive \in Primitives : ApiBegin(r, primitive)
    \/ \E r \in Slots : ApiConnected(r)
    \/ \E r \in Slots : ApiInvoke(r)

SpecAdapter == InitAdapterAlone /\ [][NextAdapter]_<< vars, aside >>

(***************************************************************************)
(* The address checks: isRippleAddress as the request validators and       *)
(* AddressesController.isValid call it.                                    *)
(***************************************************************************)
\* calls of isRippleAddress in a run
MaxChecks == 3

\* what getSettings can answer: it fails, or the settings of the account
SettingsAnswers ==
    { NoSettings,
      [ fetched |-> TRUE, requireDestinationTag |-> FALSE ],
      [ fetched |-> TRUE, requireDestinationTag |-> TRUE ] }

\* the validators IsRippleAddress and ParamIsRippleAddress check a field or
\* a parameter of a request
IsRippleAddress(str) ==
    LET check == isRippleAddress(str, lastIndex) IN
    /\ Len(checked) < MaxChecks
    /\ lastIndex' = check.lastIndex
    /\ checked' = Append(checked, [ str |-> str, result |-> check.result ])
    /\ UNCHANGED << validation, validity, vars, adapter, migration >>

\* isValid(address) up to its await of getSettings: an address that
\* isRippleAddress refuses is answered at once
IsValidBegin(address) ==
    LET check == isRippleAddress(address, lastIndex) IN
    /\ validation.at = "idle"
    /\ Len(checked) < MaxChecks
    /\ lastIndex' = check.lastIndex
    /\ checked' = Append(checked, [ str |-> address, result |-> check.result ])
    /\ IF check.result
       THEN /\ validation' = [ at |-> "getSettings", address |-> address ]
            /\ UNCHANGED validity
       ELSE /\ validation' = NoValidation
            /\ validity' = [ answered |-> TRUE, address |-> address,
                             settings |-> NoSettings, isValid |-> FALSE ]
    /\ UNCHANGED << vars, adapter, migration >>

\* getSettings(addressParts[0]).catch(_ => undefined) answers, and isValid
\* returns
IsValidSettings(accountSettings) ==
    LET addressParts == Split(validation.address, ADDRESS_SEPARATOR)
        addressIsTagged == Len(addressParts) > 1
    IN  /\ validation.at = "getSettings"
        /\ validation' = NoValidation
        /\ validity' =
             [ answered |-> TRUE, address |-> validation.address,
               settings |-> accountSettings,
               isValid |-> /\ accountSettings.fetched
                           /\ ( \/ ~accountSettings.requireDestinationTag
                                \/ addressIsTagged ) ]
        /\ UNCHANGED << lastIndex, checked, vars, adapter, migration >>

InitChecksAlone ==
    /\ NoTransactions
    /\ InitAdapter
    /\ InitChecks
    /\ NoMigration

NextChecks ==
    \/ \E str \in Strings : IsRippleAddress(str)
    \/ \E address \in Strings : IsValidBegin(address)
    \/ \E accountSettings \in SettingsAnswers : IsValidSettings(accountSettings)

SpecChecks == InitChecksAlone /\ [][NextChecks]_<< vars, aside >>

(***************************************************************************)
(* The migration from v1: MigrateController.fromV1toV2 and the program     *)
(* src/migration/Program.cs.  Of what the two do, the observed addresses   *)
(* and the XRP asset are written to collaborators and left out here.       *)
(***************************************************************************)
\* ParamsRepository.upsert(lastProcessedLedger), and the InsertOrMerge of
\* the program: the one row of RippleParams gets the value
UpsertParams(lastProcessedLedger) ==
    [ exists |-> TRUE, LastProcessedLedger |-> lastProcessedLedger ]

\* POST /migrate: lastProcessedLedger = !!pages[0] && pages[0] / 10 is
\* stored when it is truthy; no page and page 0 are falsy, every other
\* page gives a number that is not 0
fromV1toV2 ==
    LET truthy == lastTransactionPages # <<>> /\ lastTransactionPages[1] # 0
    IN  /\ params' = IF truthy
                     THEN UpsertParams(TenthOf(lastTransactionPages[1]))
                     ELSE params
        /\ migrated' = "endpoint"
        /\ UNCHANGED << lastTransactionPages, vars, adapter, checks >>

\* Program.Main: lastTransactionPage.ToInt64() / 10 is stored when the
\* query found a page
Main ==
    /\ params' = IF lastTransactionPages # <<>>
                 THEN UpsertParams(IntegerTenthOf(lastTransactionPages[1]))
                 ELSE params
    /\ migrated' = "program"
    /\ UNCHANGED << lastTransactionPages, vars, adapter, checks >>

\* the v1 database has no transaction with a page, or its latest has one
InitMigration ==
    /\ NoTransactions
    /\ InitAdapter
    /\ InitChecks
    /\ lastTransactionPages \in { <<>> } \cup { << page >> : page \in 0..MaxPage }
    /\ params = NoParams
    /\ migrated = ""

NextMigration ==
    \/ fromV1toV2
    \/ Main

SpecMigration == InitMigration /\ [][NextMigration]_<< vars, aside >>

(***************************************************************************)
(* Vocabulary of the properties.                                           *)
(***************************************************************************)
\* this step receives a request of the given handler for operation o
BeginOf(handler, o) ==
    /\ started' = started + 1
    /\ IF pc' = pc
       THEN response'.handler = handler /\ response'.operationId = o
       ELSE \E r \in Slots : /\ pc[r] = "idle" /\ pc'[r] # "idle"
                              /\ local'[r].handler = handler
                              /\ local'[r].operationId = o

\* this step ends the request of slot r with an answer of the handler
Answers(r) == pc[r] # "idle" /\ pc'[r] = "idle" /\ response'.status # 500

\* this step moves the handler of slot r from one await to the next
Proceeds(r) == pc[r] # "idle" /\ pc'[r] # "idle" /\ pc'[r] # pc[r]

\* the lifecycle columns of an operation row
Lifecycle(operation) ==
    << operation.SendTime, operation.CompletionTime, operation.FailTime >>

\* positions of the balance upserts of operation o with a delta of sign sgn
BalanceUpsertsOf(o, sgn) ==
    { i \in 1..Len(balanceUpserts) :
        /\ balanceUpserts[i].operationId = o
        /\ balanceUpserts[i].affixInBaseUnit * sgn > 0 }

HistoryUpsertsOf(o) ==
    { i \in 1..Len(historyUpserts) : historyUpserts[i].operationId = o }

RECURSIVE DebitedInBaseUnit(_, _)
DebitedInBaseUnit(log, o) ==
    IF log = <<>> THEN 0
    ELSE (IF Head(log).operationId = o /\ Head(log).affixInBaseUnit < 0
          THEN 0 - Head(log).affixInBaseUnit ELSE 0)
         + DebitedInBaseUnit(Tail(log), o)

\* slots whose broadcast is beyond the duplicate-hash guard
PastGuard == { "index", "attach", "submit", "annotate", "send",
               "debit", "credit", "history", "complete" }

(***************************************************************************)
(* Properties.                                                             *)
(***************************************************************************)
\* C1: whatever the interleaving of broadcast calls for one operation, at
\* most one debit upsert, one credit upsert and one history upsert are
\* issued for it.
C1_TransferAppliedAtMostOnce ==
    \A o \in OperationIds :
        /\ Cardinality(BalanceUpsertsOf(o, -1)) <= 1
        /\ Cardinality(BalanceUpsertsOf(o, 1)) <= 1
        /\ Cardinality(HistoryUpsertsOf(o)) <= 1

\* C2: a broadcast received for an operation whose SendTime is set and
\* whose FailTime is unset ends at once with 409 naming the state of the
\* operation, and no table and no collaborator is written.
C2_SentOperationRefusesBroadcast ==
    [][ \A o \in OperationIds :
          ( /\ BeginOf("broadcast", o)
            /\ operations[o].SendTime # 0
            /\ operations[o].FailTime = 0 )
          => ( /\ pc' = pc
               /\ response'.status = 409
               /\ response'.state = ( IF operations[o].CompletionTime # 0
                                      THEN "completed" ELSE "inProgress" )
               /\ UNCHANGED << stores, effects >> ) ]_vars

C2_Witness ==
    /\ response.handler = "broadcast"
    /\ response.status = 409
    /\ response.state = "inProgress"
    /\ operations[response.operationId].SendTime # 0
    /\ operations[response.operationId].FailTime = 0

\* C3: with one request at a time, also when a simulated broadcast aborts
\* and is retried, the base units debited for an operation never exceed its
\* AmountInBaseUnit.
C3_DebitWithinAmount ==
    \A o \in OperationIds :
        DebitedInBaseUnit(balanceUpserts, o) <= operations[o].AmountInBaseUnit


\* C4: a broadcast of operation B that finds its hash in the index under
\* another operation goes to the duplicate-hash branch and ends there with
\* the duplicated-hash error (code buildingShouldBeRepeated); neither the
\* lookup nor that branch writes the index or issues a submit, a balance
\* upsert or a history upsert.
C4_DuplicateHashRejected ==
    [][ \A r \in Slots :
          /\ ( /\ pc[r] = "lookup"
               /\ Proceeds(r)
               /\ operationsByTxId[local[r].txId] # <<>>
               /\ operationsByTxId[local[r].txId] # local[r].operationId )
             => ( /\ pc'[r] = "duplicate"
                  /\ UNCHANGED << operationsByTxId, effects >> )
          /\ ( pc[r] = "duplicate" /\ pc'[r] # "duplicate" )
             => ( /\ pc'[r] = "idle"
                  /\ UNCHANGED << operationsByTxId, effects >>
                  /\ Answers(r) =>
                       /\ response'.status = 400
                       /\ response'.message = "Duplicated transaction hash"
                       /\ response'.errorCode = "buildingShouldBeRepeated"
                       /\ response'.operationId = local[r].operationId ) ]_vars

C4_Witness ==
    /\ response.message = "Duplicated transaction hash"
    /\ response.data.operationIdByTxId # <<>>
    /\ response.data.operationIdByTxId # response.operationId
    /\ \E t \in TxIds : operationsByTxId[t] = response.data.operationIdByTxId

\* C5: after the duplicate-hash guard rejected a broadcast of operation B,
\* B's row has FailTime and a buildingShouldBeRepeated error, so that B is
\* failed for getSingle.
C5_DuplicateHashMarksFailed ==
    response.message = "Duplicated transaction hash"
    => LET operation == operations[response.operationId] IN
       /\ operation.FailTime # 0
       /\ operation.ErrorCode = "buildingShouldBeRepeated"
       /\ StatusOf(operation).state = "failed"

\* C6: two broadcasts of different operations with the same transaction
\* hash are never both beyond the duplicate-hash guard.
C6_OneOperationPerHash ==
    \A r1, r2 \in Slots :
        ( /\ r1 # r2
          /\ pc[r1] \in PastGuard
          /\ pc[r2] \in PastGuard
          /\ local[r1].txId = local[r2].txId )
        => local[r1].operationId = local[r2].operationId

C8_StaleTransactionRejected ==
    [][ \A r \in Slots :
          LET o == local[r].operationId IN
          /\ pc'[r] = "send"
             => local'[r].result \notin { tefPAST_SEQ, tefMAX_LEDGER }
          /\ ( /\ pc[r] = "annotate"
               /\ local[r].result \in { tefPAST_SEQ, tefMAX_LEDGER }
               /\ Proceeds(r) \/ Answers(r) )
             => ( /\ Answers(r)
                  /\ response'.status = 400
                  /\ response'.errorCode = "buildingShouldBeRepeated"
                  /\ Lifecycle(operations'[o]) = Lifecycle(operations[o])
                  /\ Lifecycle(operations[o]) = << 0, 0, 0 >>
                       => StatusOf(operations'[o]) = NoStatus ) ]_vars

C8_Witness ==
    /\ response.handler = "broadcast"
    /\ response.errorCode = "buildingShouldBeRepeated"
    /\ response.data.resultCode = tefMAX_LEDGER
    /\ Lifecycle(operations[response.operationId]) = << 0, 0, 0 >>
    /\ Len(submits) > 0

\* C9: a broadcast whose submission is answered with a code that starts with
\* tem ends with status 400 and code unknown and does not set SendTime.
C9_MalformedTransactionRejected ==
    [][ \A r \in Slots :
          LET o == local[r].operationId IN
          /\ pc'[r] = "send" => local'[r].result.class # "tem"
          /\ ( /\ pc[r] = "annotate"
               /\ local[r].result.class = "tem"
               /\ Proceeds(r) \/ Answers(r) )
             => ( /\ Answers(r)
                  /\ response'.status = 400
                  /\ response'.errorCode = "unknown"
                  /\ operations'[o].SendTime = operations[o].SendTime ) ]_vars

C9_Witness ==
    /\ response.handler = "broadcast"
    /\ response.errorCode = "unknown"
    /\ response.data.resultCode.class = "tem"
    /\ operations[response.operationId].SendTime = 0
    /\ Len(submits) > 0

\* C10: a broadcast whose submission is answered tesSUCCESS, or any code
\* that is neither tefPAST_SEQ nor tefMAX_LEDGER nor starts with tem, goes on
\* to record its SendTime and answers 200 with the transaction hash; none of
\* its steps from the submission on sets FailTime or CompletionTime.
C10_AmbiguousResultIsSent ==
    [][ \A r \in Slots :
          LET o == local[r].operationId
              accepted(code) == /\ code \notin { tefPAST_SEQ, tefMAX_LEDGER }
                                /\ code.class # "tem"
          IN
          /\ ( pc[r] = "submit" /\ Proceeds(r) /\ local'[r].result = tesSUCCESS )
             => pc'[r] = "send"
          /\ ( /\ pc[r] = "annotate"
               /\ accepted(local[r].result)
               /\ Proceeds(r) \/ Answers(r) )
             => pc'[r] = "send"
          /\ ( pc[r] = "send" /\ Answers(r) )
             => ( /\ accepted(local[r].result)
                  /\ response'.status = 200
                  /\ response'.txId = local[r].txId
                  /\ operations'[o].SendTime = local[r].sendTime
                  /\ operations'[o].SendTime # 0 )
          /\ ( pc[r] \in { "submit", "annotate", "send" } /\ pc'[r] # pc[r] )
             => ( /\ operations'[o].FailTime = operations[o].FailTime
                  /\ operations'[o].CompletionTime = operations[o].CompletionTime ) ]_vars

C10_Witness ==
    /\ response.handler = "broadcast"
    /\ response.status = 200
    /\ response.txId # <<>>
    /\ Len(submits) > 0
    /\ Lifecycle(operations[response.operationId])
         = << operations[response.operationId].SendTime, 0, 0 >>
    /\ operations[response.operationId].SendTime # 0

\* C11: once broadcast has handled a submission result other than tesSUCCESS
\* (it is about to record SendTime), the operation row holds that code as
\* its BlockchainError, and the status that getSingle reports for the row
\* once SendTime is recorded carries it.
C11_BlockchainErrorPersisted ==
    \A r \in Slots :
        ( /\ pc[r] = "send"
          /\ local[r].result # NoResultCode
          /\ local[r].result # tesSUCCESS )
        => LET row == operations[local[r].operationId]
               sent == [row EXCEPT !.SendTime = local[r].sendTime]
           IN  /\ BlockchainErrorOf(row) = local[r].result
               /\ StatusOf(sent).blockchainError = local[r].result

\* C12: a broadcast received for an operation whose FailTime is set ends at
\* once with status 400 carrying the Error and ErrorCode of the row (not 409),
\* and no table and no collaborator is written.
C12_FailedOperationReplaysError ==
    [][ \A o \in OperationIds :
          ( /\ BeginOf("broadcast", o)
            /\ operations[o].exists
            /\ operations[o].FailTime # 0 )
          => ( /\ pc' = pc
               /\ response'.status = 400
               /\ response'.message = operations[o].Error
               /\ response'.errorCode = operations[o].ErrorCode
               /\ UNCHANGED << stores, effects >> ) ]_vars

C12_Witness ==
    /\ response.handler = "broadcast"
    /\ response.status = 400
    /\ operations[response.operationId].FailTime # 0
    /\ response.message = operations[response.operationId].Error
    /\ response.message # ""
    /\ response.errorCode = "unknown"

\* C13: a broadcast received for an operation id that has no row ends at
\* once with the unknown-operation error (status 400), and no table and no
\* collaborator is written.
C13_UnknownOperationRefused ==
    [][ \A o \in OperationIds :
          ( BeginOf("broadcast", o) /\ ~operations[o].exists )
          => ( /\ pc' = pc
               /\ response'.status = 400
               /\ response'.message = "Unknown operation"
               /\ UNCHANGED << stores, effects >>
               /\ ~operations'[o].exists ) ]_vars

C13_Witness ==
    /\ response.handler = "broadcast"
    /\ response.message = "Unknown operation"
    /\ ~operations[response.operationId].exists
    /\ \A t \in TxIds : operationsByTxId[t] # response.operationId

C15_StateAndTimestamp ==
    [][ \A o \in OperationIds :
          ( BeginOf("getSingle", o) /\ response'.body.present )
          => LET operation == operations[o]
                 body == response'.body
             IN  /\ operation.FailTime # 0
                      => body.state = "failed" /\ body.timestamp = operation.FailTime
                 /\ ( operation.FailTime = 0 /\ operation.CompletionTime # 0 )
                      => /\ body.state = "completed"
                         /\ body.timestamp = operation.CompletionTime
                 /\ ( operation.FailTime = 0 /\ operation.CompletionTime = 0 )
                      => /\ body.state = "inProgress"
                         /\ body.timestamp = operation.SendTime
                 /\ body.timestamp # 0 ]_vars

C15_Witness ==
    /\ response.handler = "getSingle"
    /\ response.body.present
    /\ response.body.state = "failed"
    /\ response.body.timestamp = operations[response.operationId].FailTime
    /\ response.body.timestamp # operations[response.operationId].SendTime

\* C16: a simulated broadcast issues its balance upserts in two steps of its
\* own and nowhere else: first FromAddress with -AmountInBaseUnit, then
\* ToAddress with +AmountInBaseUnit, both for the asset and the id of the
\* operation it read; once it is past both, the log holds that pair in this
\* order and the two base-unit deltas sum to zero.
C16_SimulatedTransferConserves ==
    /\ [][  /\ balanceUpserts' # balanceUpserts
                 => \E r \in Slots :
                      /\ pc[r] \in { "debit", "credit" }
                      /\ pc'[r] = ( IF pc[r] = "debit" THEN "credit" ELSE "history" )
                      /\ local'[r] = local[r]
                      /\ local[r].data.signedTransaction = ""
                      /\ Len(balanceUpserts') = Len(balanceUpserts) + 1
                      /\ SubSeq(balanceUpserts', 1, Len(balanceUpserts)) = balanceUpserts
                      /\ LET u == balanceUpserts'[Len(balanceUpserts')]
                             operation == local[r].operation
                         IN  /\ u.operationId = local[r].operationId
                             /\ u.assetId = operation.AssetId
                             /\ u.address = ( IF pc[r] = "debit"
                                               THEN operation.FromAddress
                                               ELSE operation.ToAddress )
                             /\ u.affixInBaseUnit =
                                    ( IF pc[r] = "debit"
                                      THEN 0 - operation.AmountInBaseUnit
                                      ELSE operation.AmountInBaseUnit )
            /\ \A r \in Slots :
                 ( pc[r] # pc'[r] /\ pc'[r] \in { "credit", "history" } )
                 => ( pc[r] = ( IF pc'[r] = "credit" THEN "debit" ELSE "credit" )
                      /\ balanceUpserts' # balanceUpserts )
            /\ \A r \in Slots :
                 ( pc[r] # pc'[r] /\ pc'[r] = "complete" ) => pc[r] = "history" ]_vars
    /\ []( \A r \in Slots :
              pc[r] \in { "history", "complete" }
              => \E i, j \in 1..Len(balanceUpserts) :
                   /\ i < j
                   /\ balanceUpserts[i].operationId = local[r].operationId
                   /\ balanceUpserts[j].operationId = local[r].operationId
                   /\ balanceUpserts[i].address = local[r].operation.FromAddress
                   /\ balanceUpserts[j].address = local[r].operation.ToAddress
                   /\ balanceUpserts[i].affixInBaseUnit
                        = 0 - local[r].operation.AmountInBaseUnit
                   /\ balanceUpserts[j].affixInBaseUnit
                        = local[r].operation.AmountInBaseUnit
                   /\ balanceUpserts[i].affixInBaseUnit
                        + balanceUpserts[j].affixInBaseUnit = 0 )

C16_Witness ==
    /\ response.handler = "broadcast"
    /\ response.status = 200
    /\ submits = <<>>
    /\ Len(balanceUpserts) = 2
    /\ balanceUpserts[1].operationId = response.operationId
    /\ balanceUpserts[2].operationId = response.operationId
    /\ balanceUpserts[1].affixInBaseUnit = 0 - operations[response.operationId].AmountInBaseUnit
    /\ balanceUpserts[2].affixInBaseUnit > 0
    /\ balanceUpserts[1].affixInBaseUnit + balanceUpserts[2].affixInBaseUnit = 0
    /\ operations[response.operationId].CompletionTime # 0

\* C17: a broadcast without a signed transaction uses the operation id with
\* braces and dashes removed as its transaction hash, whatever id the
\* payload carries.
C17_SimulatedHashFromOperationId ==
    \A r \in Slots :
        ( /\ pc[r] # "idle"
          /\ local[r].handler = "broadcast"
          /\ local[r].data.signedTransaction = "" )
        => local[r].txId = NormalizeOperationId(local[r].operationId)

\* C18: after a build between two addresses of one base address has
\* answered with the sentinel payload, the stored operation has Fee 0,
\* FeeInBaseUnit 0 and no Expiration, and the expiration index has no row
\* for it, also when the id was built as a cross-address transfer before.
C18_SameOwnerBuildHasNoExpiration ==
    ( /\ response.handler = "buildSingle"
      /\ response.status = 200
      /\ response.transactionContext = DUMMY_TX )
    => LET operation == operations[response.operationId] IN
       /\ operation.Fee = ZeroDecimal
       /\ operation.FeeInBaseUnit = 0
       /\ operation.Expiration = 0
       /\ \A row \in operationsByExpiration : row[2] # response.operationId

\* C19: the cross-address step of a build goes on to store the operation
\* only if, for the fee and the balances the ledger answered, the amount is
\* not below the fee when the fee is included, the XRP balance is at least
\* reserve + fee (+ the amount sent when the asset is XRP) and the balance
\* of another asset is at least the amount; the amount sent is the amount
\* less the fee when the fee is included.  Otherwise the step answers 400
\* with amountIsTooSmall (only with an included fee on XRP) or
\* notEnoughBalance.
C19_CrossBuildNeedsBalances ==
    [][ \A r \in Slots :
          ( pc[r] = "prepare" /\ pc'[r] # "prepare" /\ response'.status # 500 )
          => LET q == local[r].request
                 amountInBaseUnit == q.amount
                 feeIncluded == q.assetId = XRP /\ q.includeFee
             IN  IF pc'[r] = "upsert"
                 THEN LET feeInBaseUnit == local'[r].feeInBaseUnit
                          balances == local'[r].balances
                          sent == IF feeIncluded
                                  THEN amountInBaseUnit - feeInBaseUnit
                                  ELSE amountInBaseUnit
                      IN  /\ feeInBaseUnit \in FeesInBaseUnit
                          /\ ~(feeIncluded /\ amountInBaseUnit < feeInBaseUnit)
                          /\ balances[XRP] >= ReserveInBaseUnit + feeInBaseUnit
                                 + ( IF q.assetId = XRP THEN sent ELSE 0 )
                          /\ q.assetId # XRP => balances[q.assetId] >= sent
                          /\ local'[r].amount
                               = Decimal(sent, AssetAccuracy(q.assetId))
                 ELSE /\ pc'[r] = "idle"
                      /\ response'.status = 400
                      /\ response'.errorCode
                           \in { "amountIsTooSmall", "notEnoughBalance" }
                      /\ response'.errorCode = "amountIsTooSmall" => feeIncluded ]_vars

C19_Witness ==
    /\ response.handler = "buildSingle"
    /\ response.status = 200
    /\ response.transactionContext = "txJSON"
    /\ operations[response.operationId].BuildTime = 2
    /\ operations[response.operationId].AssetId = USD
    /\ operations[response.operationId].FeeInBaseUnit = 2

\* C20: a build step that answers 409 or 400 writes no table, and so does
\* every step of a build before its upsert; the steps that write (the upsert
\* and the expiration index) never answer 409 or 400.
C20_FailedBuildWritesNothing ==
    [][ /\ \A o \in OperationIds : BeginOf("buildSingle", o) => UNCHANGED stores
        /\ \A r \in Slots :
             ( pc[r] \in { "balance", "prepare" } /\ pc'[r] # pc[r] )
             => UNCHANGED stores
        /\ ( /\ response' # response
             /\ response'.handler = "buildSingle"
             /\ response'.status \in { 400, 409 } )
           => ( /\ UNCHANGED stores
                /\ \A r \in Slots : pc[r] \notin { "upsert", "expiration" }
                                        \/ pc'[r] = pc[r] ) ]_vars

C20_Witness ==
    /\ response.handler = "buildSingle"
    /\ response.errorCode = "amountIsTooSmall"
    /\ ~operations[response.operationId].exists
    /\ operationsByExpiration = {}

\* the columns of an operation row that a build supplies
BuildColumns ==
    { "AssetId", "FromAddress", "ToAddress", "Amount", "AmountInBaseUnit",
      "Fee", "FeeInBaseUnit", "BuildTime", "Expiration" }

\* slots whose broadcast has attached its hash and is at or past the
\* submission or the first balance upsert
PastAttach == { "submit", "annotate", "send", "debit", "credit", "history",
                "complete" }

C22_HashRecordedBeforeSubmission ==
    /\ [][  /\ ( submits' # submits \/ balanceUpserts' # balanceUpserts )
                 => \E r \in Slots :
                      /\ pc[r] \in { "submit", "debit", "credit" }
                      /\ pc'[r] # pc[r]
                      /\ operationsByTxId[local[r].txId] # <<>>
                      /\ operations[local[r].operationId].TxId # <<>>
            /\ \A r \in Slots :
                 ( pc'[r] # pc[r] /\ pc'[r] \in { "submit", "debit" } )
                 => ( /\ pc[r] = "attach"
                      /\ operations'[local[r].operationId].TxId = local[r].txId )
            /\ \A r \in Slots :
                 ( pc'[r] # pc[r] /\ pc'[r] = "attach" )
                 => ( /\ pc[r] = "index"
                      /\ operationsByTxId'[local[r].txId] = local[r].operationId ) ]_vars
    /\ [](  /\ \A r \in Slots :
                 pc[r] \in PastAttach
                 => ( /\ operationsByTxId[local[r].txId] # <<>>
                      /\ operations[local[r].operationId].TxId # <<>> )
            /\ \A i \in 1..Len(submits) :
                 operations[submits[i].operationId].TxId # <<>>
            /\ \A i \in 1..Len(balanceUpserts) :
                 operations[balanceUpserts[i].operationId].TxId # <<>> )

C22_Witness ==
    /\ Len(submits) = 1
    /\ \E r \in Slots :
         /\ pc[r] = "annotate"
         /\ operations[local[r].operationId].TxId = local[r].txId
         /\ operationsByTxId[local[r].txId] = local[r].operationId
         /\ submits[1].operationId = local[r].operationId

\* C23: once SendTime, CompletionTime or FailTime of an operation is set, no
\* step changes the columns that a build supplies.
C23_RunningOperationNotRebuilt ==
    [][ \A o \in OperationIds :
          ( operations[o].exists /\ Lifecycle(operations[o]) # << 0, 0, 0 >> )
          => \A c \in BuildColumns : operations'[o][c] = operations[o][c] ]_vars

\* operations for which a ledger submission was issued
SubmittedOperations == { submits[i].operationId : i \in 1..Len(submits) }

\* C24: the last step of a simulated broadcast writes SendTime,
\* CompletionTime, BlockTime and Block of the row at once, Block being
\* ledger version * 10 + 1 when the row it read had no Block; an operation
\* for which no submission was issued never has SendTime without
\* CompletionTime, BlockTime and Block.
C24_SimulatedCompletesAtOnce ==
    /\ [][ \A r \in Slots :
             ( pc[r] = "complete" /\ Answers(r) )
             => LET l == local[r]
                    row == operations'[l.operationId]
                IN  /\ l.data.signedTransaction = ""
                    /\ row.SendTime = l.sendTime /\ row.SendTime # 0
                    /\ row.CompletionTime = l.completionTime
                    /\ row.CompletionTime # 0
                    /\ row.BlockTime = l.blockTime /\ row.BlockTime # 0
                    /\ row.Block = l.block
                    /\ l.operation.Block = 0
                         => \E v \in LedgerVersions : row.Block = v * 10 + 1
                    /\ response'.status = 200 ]_vars
    /\ []( \A o \in OperationIds \ SubmittedOperations :
              operations[o].SendTime # 0
              => ( /\ operations[o].CompletionTime # 0
                   /\ operations[o].BlockTime # 0
                   /\ operations[o].Block # 0 ) )

C24_Witness ==
    /\ response.handler = "broadcast"
    /\ response.status = 200
    /\ submits = <<>>
    /\ operations[response.operationId].SendTime # 0
    /\ operations[response.operationId].CompletionTime
         = operations[response.operationId].SendTime
    /\ operations[response.operationId].Block = 11
    /\ Len(historyUpserts) = 1

C26_SendTimeWrittenOnce ==
    [][ \A o \in OperationIds :
          operations[o].SendTime # 0
          => operations'[o].SendTime = operations[o].SendTime ]_vars

\* C27: once BuildTime of an operation is set, no step changes it.
C27_BuildTimeSetOnce ==
    [][ \A o \in OperationIds :
          operations[o].BuildTime # 0
          => operations'[o].BuildTime = operations[o].BuildTime ]_vars

\* C28: every row (e, op) of the expiration index names an existing
\* operation whose Expiration is e, and no operation has two rows.
C28_ExpirationIndexAgrees ==
    /\ \A row \in operationsByExpiration :
          /\ operations[row[2]].exists
          /\ operations[row[2]].Expiration = row[1]
    /\ \A o \in OperationIds :
          Cardinality({ row \in operationsByExpiration : row[2] = o }) <= 1

\* C29: the Amount of every stored operation is its AmountInBaseUnit scaled
\* by the accuracy of its asset.
C29_AmountMatchesBaseUnit ==
    \A o \in OperationIds :
        operations[o].exists
        => operations[o].Amount
             = fromBaseUnit(operations[o].AssetId, operations[o].AmountInBaseUnit)

\* the lifecycle state of an operation row
LifecycleState(operation) ==
    IF Lifecycle(operation) = << 0, 0, 0 >> THEN "built"
    ELSE IF operation.FailTime # 0 THEN "failed"
    ELSE IF operation.CompletionTime # 0 THEN "completed"
    ELSE "sent"

\* C30: no step takes an operation from sent, completed or failed back to
\* built, from completed or failed to another state, or removes its row.
C30_LifecycleMovesForward ==
    [][ \A o \in OperationIds :
          LET before == LifecycleState(operations[o])
              after == LifecycleState(operations'[o])
          IN  /\ operations[o].exists => operations'[o].exists
              /\ before # "built" => after # "built"
              /\ before \in { "completed", "failed" } => after = before
              /\ \A c \in { "SendTime", "CompletionTime", "FailTime" } :
                    operations[o][c] # 0 => operations'[o][c] # 0 ]_vars

C30_Witness ==
    /\ response.handler = "deleteBroadcasted"
    /\ LifecycleState(operations[response.operationId]) = "completed"
    /\ operations[response.operationId].DeleteTime
         > operations[response.operationId].CompletionTime
    /\ Len(historyUpserts) = 1

\* C32: every history record refers to an operation whose CompletionTime is
\* set, in every reachable state, also when the broadcast ends between the
\* history upsert and the update of the operation row.
C32_HistoryOnlyOfCompleted ==
    \A i \in 1..Len(historyUpserts) :
        operations[historyUpserts[i].operationId].CompletionTime # 0

\* the row was built as a same-owner transfer
SameOwner(operation) == BaseOf(operation.FromAddress) = BaseOf(operation.ToAddress)

\* C33: a broadcast takes the simulated path, and completes an operation
\* without a ledger submission, only when the operation was built as a
\* same-owner transfer, whatever payload the caller sends.
C33_SimulatedOnlyForSameOwner ==
    [][ \A r \in Slots :
          /\ ( pc[r] = "attach" /\ pc'[r] = "debit" )
               => SameOwner(operations[local[r].operationId])
          /\ ( pc[r] = "complete" /\ Answers(r) )
               => SameOwner(operations[local[r].operationId]) ]_vars

\* the (address, asset) balances that simulated transfers have touched
TouchedBalances ==
    { << balanceUpserts[i].address, balanceUpserts[i].assetId >> :
        i \in 1..Len(balanceUpserts) }

\* C34: no balance touched by simulated transfers is negative, also when
\* several operations were built against the same balance before any of
\* them is broadcast.
C34_BalancesNeverNegative ==
    \A b \in TouchedBalances : BalanceInBaseUnit(balanceUpserts, b[1], b[2]) >= 0

\* C35: a broadcast received for an operation id that no build has stored
\* (BuildTime unset) ends at once with the unknown-operation error and
\* writes no table and no collaborator, also after a deleteBroadcasted of
\* that id.
C35_NeverBuiltIsUnknown ==
    [][ \A o \in OperationIds :
          ( /\ BeginOf("broadcast", o)
            /\ operations[o].BuildTime = 0 )
          => ( /\ pc' = pc
               /\ response'.status = 400
               /\ response'.message = "Unknown operation"
               /\ UNCHANGED << stores, effects >> ) ]_vars

\* C37: an operation row with TxId = h has the index row h pointing at that
\* operation, in every reachable state, also with concurrent broadcasts of
\* different operations.
C37_IndexAgreesWithTxId ==
    \A o \in OperationIds :
        operations[o].TxId # <<>>
            => getOperationIdByTxId(operationsByTxId, operations[o].TxId) = o

\* C31: the adapter calls connect only when the client is not connected and
\* no connect is in progress, and every primitive is invoked on a connected
\* client.
C31_ConnectsOnceWhenNeeded ==
    /\ [][ connecting' > connecting => ( ~connected /\ connecting = 0 ) ]_adapter
    /\ [](\A i \in 1..Len(invoked) : invoked[i].connected)

\* the string has a character that is invalid in a storage key
HasAzureKeyInvalidChar(str) == \E i \in 1..Len(str) : str[i] \in AzureKeyInvalidChars

\* C36: in any sequence of calls isRippleAddress gives one result per
\* string, and false for every string with a character that is invalid in
\* a storage key.
C36_IsRippleAddressIsPure ==
    /\ \A i, j \in 1..Len(checked) :
          checked[i].str = checked[j].str => checked[i].result = checked[j].result
    /\ \A i \in 1..Len(checked) :
          HasAzureKeyInvalidChar(checked[i].str) => ~checked[i].result

\* the string is an address with an optional tag: what isRippleAddress
\* accepts when its search for invalid characters starts at the first one
IsAddressWithOptionalTag(str) == isRippleAddress(str, 0).result

\* C38: isValid answers true exactly when the address is an address with
\* an optional tag, the settings of the account were fetched, and the
\* account requires no destination tag or the address has a tag part.
C38_ValidityOfAddress ==
    validity.answered =>
        ( validity.isValid
            <=> ( /\ IsAddressWithOptionalTag(validity.address)
                  /\ validity.settings.fetched
                  /\ ( \/ ~validity.settings.requireDestinationTag
                       \/ Len(Split(validity.address, ADDRESS_SEPARATOR)) > 1 ) ) )

\* C39: after the migration endpoint has run, the row of RippleParams holds
\* the whole number floor(page / 10) of the latest page, which is what the
\* migration program stores for that page, and there is no row when there
\* is no page.
C39_EndpointStoresLedgerOfPage ==
    migrated = "endpoint" =>
        IF lastTransactionPages = <<>>
        THEN ~params.exists
        ELSE /\ params.exists
             /\ params.LastProcessedLedger
                  = Decimal(lastTransactionPages[1] \div 10, 0)
             /\ params.LastProcessedLedger
                  = IntegerTenthOf(lastTransactionPages[1])

====
